---- MODULE Spec2Model ----
(***************************************************************************)
(* A model of the scc compiler pipeline: lex (src/src/lex.rs), parse       *)
(* (src/src/parse.rs), generate_assembly and assembly_to_string            *)
(* (src/src/assembly.rs), driven as in main (src/src/main.rs).             *)
(*                                                                         *)
(* A text (Rust String) is a sequence of characters; a character is a      *)
(* one-character string.  The string "U+00E9" stands for the single        *)
(* non-ASCII letter e-acute and "U+00B2" for the single non-ASCII numeric  *)
(* character superscript two: char::is_alphanumeric is true of both and    *)
(* char::is_digit(10) of neither.                                          *)
(***************************************************************************)
EXTENDS Integers, Sequences, FiniteSets, TLC

VARIABLES src, lx, tokens, ps, asm, text, stage

vars == <<src, lx, tokens, ps, asm, text, stage>>

(* ---------------------------------------------------------------------- *)
(* Bounds of the model                                                     *)
(* ---------------------------------------------------------------------- *)
MaxSrcLen == 4
MaxExtra == 2
MaxDigits == 2

(* ---------------------------------------------------------------------- *)
(* Characters                                                              *)
(* ---------------------------------------------------------------------- *)
AsciiDigits == {"0", "1", "2", "3", "4", "5", "6", "7", "8", "9"}

AsciiLetters ==
  {"a", "b", "c", "d", "e", "f", "g", "h", "i", "j", "k", "l", "m",
   "n", "o", "p", "q", "r", "s", "t", "u", "v", "w", "x", "y", "z",
   "A", "B", "C", "D", "E", "F", "G", "H", "I", "J", "K", "L", "M",
   "N", "O", "P", "Q", "R", "S", "T", "U", "V", "W", "X", "Y", "Z"}

UnicodeLetters == {"U+00E9"}

UnicodeNumerics == {"U+00B2"}

is_digit(c) == c \in AsciiDigits

is_alphanumeric(c) ==
  c \in AsciiLetters \cup AsciiDigits \cup UnicodeLetters \cup UnicodeNumerics

DigitValue(c) ==
  CASE c = "0" -> 0 [] c = "1" -> 1 [] c = "2" -> 2 [] c = "3" -> 3
    [] c = "4" -> 4 [] c = "5" -> 5 [] c = "6" -> 6 [] c = "7" -> 7
    [] c = "8" -> 8 [] c = "9" -> 9

DigitChar(d) ==
  CASE d = 0 -> "0" [] d = 1 -> "1" [] d = 2 -> "2" [] d = 3 -> "3"
    [] d = 4 -> "4" [] d = 5 -> "5" [] d = 6 -> "6" [] d = 7 -> "7"
    [] d = 8 -> "8" [] d = 9 -> "9"

(* ---------------------------------------------------------------------- *)
(* Tokens (ast.rs, enum Token)                                             *)
(* ---------------------------------------------------------------------- *)
NoText == <<>>

Tok(k) == [kind |-> k, text |-> NoText]

Identifier(t) == [kind |-> "Identifier", text |-> t]

IntegerLiteral(t) == [kind |-> "IntegerLiteral", text |-> t]

TokenKinds ==
  {"OpenBrace", "CloseBrace", "OpenParenthesis", "CloseParenthesis",
   "Semicolon", "IntKeyword", "ReturnKeyword", "VoidKeyword", "Identifier",
   "IntegerLiteral", "Negation", "BitwiseComplement", "LogicalNegation",
   "Decrement"}

(* ---------------------------------------------------------------------- *)
(* Lexer (lex.rs).  A lexer state st is                                    *)
(*   pos    : index in the text of the character chars.peek() yields       *)
(*            (Len + 1 when the iterator is exhausted)                     *)
(*   tokens : the local Vec<Token>                                         *)
(*   status : "run" in the while loop, "done" after return, "panic"        *)
(*   panic  : the panic message, as <<format prefix, character>>           *)
(* ---------------------------------------------------------------------- *)
NoPanic == <<>>

LexInit == [pos |-> 1, tokens |-> <<>>, status |-> "run", panic |-> NoPanic]

SingleChars == {"{", "}", "(", ")", ";", "-", "~", "!"}

SingleCharToken(c) ==
  CASE c = "{" -> Tok("OpenBrace")
    [] c = "}" -> Tok("CloseBrace")
    [] c = "(" -> Tok("OpenParenthesis")
    [] c = ")" -> Tok("CloseParenthesis")
    [] c = ";" -> Tok("Semicolon")
    [] c = "-" -> Tok("Negation")
    [] c = "~" -> Tok("BitwiseComplement")
    [] c = "!" -> Tok("LogicalNegation")

Whitespace == {" ", "\n", "\r"}

KwInt == <<"i", "n", "t">>

KwReturn == <<"r", "e", "t", "u", "r", "n">>

(* chars.clone().collect::<String>().starts_with(kw) *)
starts_with(s, p, kw) ==
  /\ p + Len(kw) - 1 <= Len(s)
  /\ \A k \in 1..Len(kw) : s[p + k - 1] = kw[k]

(* the loop of the `//` arm: stops in front of the newline or at the end *)
RECURSIVE SkipLineComment(_, _)
SkipLineComment(s, p) ==
  IF p > Len(s) THEN p
  ELSE IF s[p] = "\n" THEN p
  ELSE SkipLineComment(s, p + 1)

(* the loop of the `/*` arm closing on a `*` whatever follows it *)
RECURSIVE SkipBlockCommentAtStar(_, _)
SkipBlockCommentAtStar(s, p) ==
  IF p > Len(s) THEN p
  ELSE IF s[p] = "*" THEN (IF p + 1 <= Len(s) THEN p + 2 ELSE p + 1)
  ELSE SkipBlockCommentAtStar(s, p + 1)

(* the loop of the `/*` arm: stops behind the first `*/` or at the end *)
RECURSIVE SkipBlockComment(_, _)
SkipBlockComment(s, p) ==
  IF p > Len(s) THEN p
  ELSE IF s[p] = "*" /\ p + 1 <= Len(s) /\ s[p + 1] = "/" THEN p + 2
  ELSE SkipBlockComment(s, p + 1)

(* end of the maximal run of alphanumeric/underscore characters from p *)
RECURSIVE IdentEnd(_, _)
IdentEnd(s, p) ==
  IF p <= Len(s) /\ (is_alphanumeric(s[p]) \/ s[p] = "_")
  THEN IdentEnd(s, p + 1)
  ELSE p

(* end of the maximal run of ASCII digits from p *)
RECURSIVE DigitsEnd(_, _)
DigitsEnd(s, p) ==
  IF p <= Len(s) /\ is_digit(s[p]) THEN DigitsEnd(s, p + 1) ELSE p

lex_identifier_or_keyword(s, st) ==
  LET e == IdentEnd(s, st.pos)
  IN [st EXCEPT !.pos = e,
                !.tokens = Append(@, Identifier(SubSeq(s, st.pos, e - 1)))]

lex_integer_literal(s, st) ==
  LET e == DigitsEnd(s, st.pos)
  IN [st EXCEPT !.pos = e,
                !.tokens = Append(@, IntegerLiteral(SubSeq(s, st.pos, e - 1)))]

ArmSingleChar(s, st) ==
  [st EXCEPT !.pos = @ + 1, !.tokens = Append(@, SingleCharToken(s[st.pos]))]

(* the `/` arm panicking when the input ends behind the `/` *)
ArmSlashStrict(s, st) ==
  LET p == st.pos + 1
  IN IF p <= Len(s)
     THEN CASE s[p] = "/" -> [st EXCEPT !.pos = SkipLineComment(s, p + 1)]
            [] s[p] = "*" -> [st EXCEPT !.pos = SkipBlockComment(s, p + 1)]
            [] OTHER -> [st EXCEPT !.pos = p, !.status = "panic",
                           !.panic = <<"Unexpected character after '/': ", s[p]>>]
     ELSE [st EXCEPT !.pos = p, !.status = "panic",
                     !.panic = <<"Unexpected character after '/': ", "">>]

ArmSlash(s, st) ==
  LET p == st.pos + 1
  IN IF p <= Len(s)
     THEN CASE s[p] = "/" -> [st EXCEPT !.pos = SkipLineComment(s, p + 1)]
            [] s[p] = "*" -> [st EXCEPT !.pos = SkipBlockComment(s, p + 1)]
            [] OTHER -> [st EXCEPT !.pos = p, !.status = "panic",
                           !.panic = <<"Unexpected character after '/': ", s[p]>>]
     ELSE [st EXCEPT !.pos = p]

(* the `i` arm taking `int` for the keyword only at the end of the run *)
ArmIWordBoundary(s, st) ==
  IF starts_with(s, st.pos, KwInt) /\ IdentEnd(s, st.pos) = st.pos + 3
  THEN [st EXCEPT !.pos = @ + 3, !.tokens = Append(@, Tok("IntKeyword"))]
  ELSE lex_identifier_or_keyword(s, st)

ArmI(s, st) ==
  IF starts_with(s, st.pos, KwInt)
  THEN [st EXCEPT !.pos = @ + 3, !.tokens = Append(@, Tok("IntKeyword"))]
  ELSE lex_identifier_or_keyword(s, st)

(* the `r` arm without the keyword test *)
ArmRNoKeyword(s, st) == lex_identifier_or_keyword(s, st)

ArmR(s, st) ==
  IF starts_with(s, st.pos, KwReturn)
  THEN [st EXCEPT !.pos = @ + 6, !.tokens = Append(@, Tok("ReturnKeyword"))]
  ELSE lex_identifier_or_keyword(s, st)

ArmWhitespace(s, st) == [st EXCEPT !.pos = @ + 1]

(* the fallback arm skipping the character instead of panicking *)
ArmUnexpectedSkips(s, st) == [st EXCEPT !.pos = @ + 1]

ArmUnexpected(s, st) ==
  [st EXCEPT !.status = "panic",
             !.panic = <<"Unexpected character: ", s[st.pos]>>]

ArmReturn(s, st) == [st EXCEPT !.status = "done"]

(* which arm of the match the character under the cursor selects; the arms
   are tried in the order of the source *)
ArmOf(s, st) ==
  IF st.pos > Len(s) THEN "return"
  ELSE LET ch == s[st.pos]
       IN IF ch \in SingleChars THEN "single"
          ELSE IF ch = "/" THEN "slash"
          ELSE IF ch = "i" THEN "i"
          ELSE IF ch = "r" THEN "r"
          ELSE IF is_digit(ch) THEN "digit"
          ELSE IF is_alphanumeric(ch) \/ ch = "_" THEN "alnum"
          ELSE IF ch \in Whitespace THEN "whitespace"
          ELSE "unexpected"

(* one iteration of the while loop of lex *)
LexStep(s, st) ==
  LET a == ArmOf(s, st)
  IN CASE a = "single" -> ArmSingleChar(s, st)
       [] a = "slash" -> ArmSlash(s, st)
       [] a = "i" -> ArmI(s, st)
       [] a = "r" -> ArmR(s, st)
       [] a = "digit" -> lex_integer_literal(s, st)
       [] a = "alnum" -> lex_identifier_or_keyword(s, st)
       [] a = "whitespace" -> ArmWhitespace(s, st)
       [] a = "unexpected" -> ArmUnexpected(s, st)
       [] a = "return" -> ArmReturn(s, st)

RECURSIVE LexRun(_, _)
LexRun(s, st) == IF st.status = "run" THEN LexRun(s, LexStep(s, st)) ELSE st

(* lex as a function of the text: the final lexer state *)
lex(s) == LexRun(s, LexInit)

(* ---------------------------------------------------------------------- *)
(* Source AST (ast.rs) and results                                         *)
(* ---------------------------------------------------------------------- *)
MaxI32 == 2147483647

MinI32 == -MaxI32 - 1

Const(v) == [kind |-> "Const", value |-> v]

Return(e) == [kind |-> "Return", exp |-> e]

Program(n, b) == [name |-> n, body |-> b]

NoProgram == Program(<<>>, Return(Const(0)))

NoError == [msg |-> "", args |-> <<>>]

Fmt(m, a) == [msg |-> m, args |-> a]

Pending == [tag |-> "none", program |-> NoProgram, err |-> NoError]

Ok(p) == [tag |-> "ok", program |-> p, err |-> NoError]

Err(e) == [tag |-> "err", program |-> NoProgram, err |-> e]

(* ---------------------------------------------------------------------- *)
(* str::parse::<i32> as used by expect_integer_literal (parse.rs:106):     *)
(* an optional sign, then one or more ASCII digits, accumulated with       *)
(* checked multiplication and addition (subtraction after `-`).            *)
(* ---------------------------------------------------------------------- *)
checked_mul10(a) ==
  IF a > MaxI32 \div 10 \/ a < -(MaxI32 \div 10)
  THEN [ok |-> FALSE, v |-> 0]
  ELSE [ok |-> TRUE, v |-> a * 10]

(* wrapping_add in place of checked_add *)
wrapping_add(a, d) ==
  IF a > MaxI32 - d
  THEN [ok |-> TRUE, v |-> MinI32 + (d - (MaxI32 - a) - 1)]
  ELSE [ok |-> TRUE, v |-> a + d]

checked_add(a, d) ==
  IF a > MaxI32 - d THEN [ok |-> FALSE, v |-> 0] ELSE [ok |-> TRUE, v |-> a + d]

checked_sub(a, d) ==
  IF a < MinI32 + d THEN [ok |-> FALSE, v |-> 0] ELSE [ok |-> TRUE, v |-> a - d]

RECURSIVE AccumulateDigits(_, _, _, _)
AccumulateDigits(t, k, acc, positive) ==
  IF k > Len(t) THEN [ok |-> TRUE, v |-> acc]
  ELSE IF ~is_digit(t[k]) THEN [ok |-> FALSE, v |-> 0]
  ELSE LET m == checked_mul10(acc)
       IN IF ~m.ok THEN [ok |-> FALSE, v |-> 0]
          ELSE LET r == IF positive THEN checked_add(m.v, DigitValue(t[k]))
                        ELSE checked_sub(m.v, DigitValue(t[k]))
               IN IF ~r.ok THEN [ok |-> FALSE, v |-> 0]
                  ELSE AccumulateDigits(t, k + 1, r.v, positive)

parse_i32(t) ==
  IF Len(t) = 0 THEN [ok |-> FALSE, v |-> 0]
  ELSE IF Len(t) = 1 /\ t[1] \in {"+", "-"} THEN [ok |-> FALSE, v |-> 0]
  ELSE IF t[1] = "+" THEN AccumulateDigits(t, 2, 0, TRUE)
  ELSE IF t[1] = "-" THEN AccumulateDigits(t, 2, 0, FALSE)
  ELSE AccumulateDigits(t, 1, 0, TRUE)

(* ---------------------------------------------------------------------- *)
(* Parser (parse.rs).  A parser state is                                   *)
(*   idx        : index of the token iter.peek() yields                    *)
(*   step       : the statement of parse about to run                      *)
(*   identifier : the local `identifier`                                   *)
(*   integer    : the local `integer`                                      *)
(*   result     : Pending, or the value parse returned                     *)
(* ---------------------------------------------------------------------- *)
ParseInit ==
  [idx |-> 1, step |-> "int", identifier |-> <<>>, integer |-> 0,
   result |-> Pending]

Fail(st, e) == [st EXCEPT !.step = "returned", !.result = Err(e)]

(* expect_token taking the end of input for the expected token *)
expect_token_lenient(toks, st, expected, next) ==
  IF st.idx > Len(toks)
  THEN [st EXCEPT !.idx = @ + 1, !.step = next]
  ELSE IF toks[st.idx] = expected
  THEN [st EXCEPT !.idx = @ + 1, !.step = next]
  ELSE Fail(st, Fmt("Expected {:?}, found {:?}", <<expected, toks[st.idx]>>))

(* expect_token: consume the token when it is the expected one *)
expect_token(toks, st, expected, next) ==
  IF st.idx > Len(toks)
  THEN Fail(st, Fmt("Expected {:?}, but found end of input", <<expected>>))
  ELSE IF toks[st.idx] = expected
  THEN [st EXCEPT !.idx = @ + 1, !.step = next]
  ELSE Fail(st, Fmt("Expected {:?}, found {:?}", <<expected, toks[st.idx]>>))

expect_identifier(toks, st, next) ==
  IF st.idx > Len(toks)
  THEN Fail(st, Fmt("Expected identifier, but found end of input", <<>>))
  ELSE IF toks[st.idx].kind = "Identifier"
  THEN [st EXCEPT !.idx = @ + 1, !.step = next,
                  !.identifier = toks[st.idx].text]
  ELSE Fail([st EXCEPT !.idx = @ + 1],
            Fmt("Expected identifier, found {:?}", <<toks[st.idx]>>))

expect_integer_literal(toks, st, next) ==
  IF st.idx > Len(toks)
  THEN Fail(st, Fmt("Expected integer literal, but found end of input", <<>>))
  ELSE IF toks[st.idx].kind = "IntegerLiteral"
  THEN LET r == parse_i32(toks[st.idx].text)
       IN IF r.ok
          THEN [st EXCEPT !.idx = @ + 1, !.step = next, !.integer = r.v]
          ELSE Fail([st EXCEPT !.idx = @ + 1],
                    Fmt("Invalid integer literal", <<>>))
  ELSE Fail([st EXCEPT !.idx = @ + 1],
            Fmt("Expected integer literal, found {:?}", <<toks[st.idx]>>))

(* parse.rs:10-16, the parameter list *)
ParseParams(toks, st) ==
  IF st.idx <= Len(toks) /\ toks[st.idx] = Tok("VoidKeyword")
  THEN [st EXCEPT !.idx = @ + 1, !.step = "close"]
  ELSE IF st.idx <= Len(toks) /\ toks[st.idx] = Tok("CloseParenthesis")
  THEN [st EXCEPT !.step = "close"]
  ELSE Fail(st, Fmt("Expected 'void' or ')' after '(", <<>>))

(* the end of parse without the check for remaining tokens *)
ParseEndUnchecked(toks, st) ==
  [st EXCEPT !.step = "returned",
             !.result = Ok(Program(st.identifier, Return(Const(st.integer))))]

(* parse.rs:26-34, the end of input and the construction of the Program *)
ParseEnd(toks, st) ==
  IF st.idx <= Len(toks)
  THEN Fail([st EXCEPT !.idx = @ + 1],
            Fmt("Unexpected tokens at after function delcaration", <<>>))
  ELSE [st EXCEPT !.step = "returned",
                  !.result = Ok(Program(st.identifier, Return(Const(st.integer))))]

ParseSteps ==
  {"int", "name", "open", "params", "close", "brace", "return", "literal",
   "semi", "cbrace", "end"}

(* one statement of parse *)
ParseStep(toks, st) ==
  CASE st.step = "int" -> expect_token(toks, st, Tok("IntKeyword"), "name")
    [] st.step = "name" -> expect_identifier(toks, st, "open")
    [] st.step = "open" -> expect_token(toks, st, Tok("OpenParenthesis"), "params")
    [] st.step = "params" -> ParseParams(toks, st)
    [] st.step = "close" -> expect_token(toks, st, Tok("CloseParenthesis"), "brace")
    [] st.step = "brace" -> expect_token(toks, st, Tok("OpenBrace"), "return")
    [] st.step = "return" -> expect_token(toks, st, Tok("ReturnKeyword"), "literal")
    [] st.step = "literal" -> expect_integer_literal(toks, st, "semi")
    [] st.step = "semi" -> expect_token(toks, st, Tok("Semicolon"), "cbrace")
    [] st.step = "cbrace" -> expect_token(toks, st, Tok("CloseBrace"), "end")
    [] st.step = "end" -> ParseEnd(toks, st)

RECURSIVE ParseRun(_, _)
ParseRun(toks, st) ==
  IF st.step \in ParseSteps THEN ParseRun(toks, ParseStep(toks, st)) ELSE st

(* parse as a function of the token sequence: the value it returns *)
parse(toks) == ParseRun(toks, ParseInit).result

(* ---------------------------------------------------------------------- *)
(* Assembly AST (ast.rs) and the generator (assembly.rs)                   *)
(* ---------------------------------------------------------------------- *)
Imm(v) == [kind |-> "Imm", value |-> v]

Register == [kind |-> "Register", value |-> 0]

Mov(s, d) == [kind |-> "Mov", src |-> s, dst |-> d]

Ret == [kind |-> "Ret", src |-> Register, dst |-> Register]

AsmProgram(n, ins) == [name |-> n, instructions |-> ins]

NoAsm == [tag |-> "none", program |-> AsmProgram(<<>>, <<>>), err |-> ""]

generate_operand(exp) ==
  IF exp.kind = "Const"
  THEN [ok |-> TRUE, operand |-> Imm(exp.value)]
  ELSE [ok |-> FALSE, operand |-> Register]

(* generate_assembly without the Ret instruction *)
generate_assembly_no_ret(ast) ==
  [tag |-> "ok",
   program |-> AsmProgram(ast.name, <<Mov(Imm(ast.body.exp.value), Register)>>),
   err |-> ""]

generate_assembly(ast) ==
  IF ast.body.kind = "Return"
  THEN LET o == generate_operand(ast.body.exp)
       IN IF o.ok
          THEN [tag |-> "ok",
                program |-> AsmProgram(ast.name,
                                       <<Mov(o.operand, Register), Ret>>),
                err |-> ""]
          ELSE [tag |-> "err", program |-> AsmProgram(<<>>, <<>>),
                err |-> "Unsupported expression type."]
  ELSE [tag |-> "err", program |-> AsmProgram(<<>>, <<>>),
        err |-> "Invalid function body, expected a return statement."]

(* the decimal digits of a natural number *)
RECURSIVE NatToDecimal(_)
NatToDecimal(n) ==
  IF n < 10 THEN <<DigitChar(n)>>
  ELSE NatToDecimal(n \div 10) \o <<DigitChar(n % 10)>>

(* Display of an i32: a `-` and the digits of the magnitude when negative *)
i32_to_string(v) ==
  IF v >= 0 THEN NatToDecimal(v)
  ELSE IF v = MinI32
  THEN <<"-">> \o NatToDecimal(MaxI32 \div 10) \o <<DigitChar((MaxI32 % 10) + 1)>>
  ELSE <<"-">> \o NatToDecimal(-v)

(* operand_to_str without the `$` of an immediate *)
operand_to_str_bare(operand) ==
  IF operand.kind = "Imm"
  THEN i32_to_string(operand.value)
  ELSE <<"%", "e", "a", "x">>

operand_to_str(operand) ==
  IF operand.kind = "Imm"
  THEN <<"$">> \o i32_to_string(operand.value)
  ELSE <<"%", "e", "a", "x">>

instruction_to_str(ins) ==
  IF ins.kind = "Mov"
  THEN <<" ", " ", " ", " ", "m", "o", "v", "l", " ">>
         \o operand_to_str(ins.src) \o <<",", " ">>
         \o operand_to_str(ins.dst) \o <<"\n">>
  ELSE <<" ", " ", " ", " ", "r", "e", "t", "\n">>

RECURSIVE instructions_to_str(_)
instructions_to_str(ins) ==
  IF ins = <<>> THEN <<>>
  ELSE instruction_to_str(Head(ins)) \o instructions_to_str(Tail(ins))

Trailer ==
  <<" ", " ", " ", " ", ".", "s", "e", "c", "t", "i", "o", "n", " ", ".",
    "n", "o", "t", "e", ".", "G", "N", "U", "-", "s", "t", "a", "c", "k",
    ",", "\"", "\"", ",", "@", "p", "r", "o", "g", "b", "i", "t", "s">>

assembly_to_string(assembly) ==
  <<" ", ".", "g", "l", "o", "b", "l", " ">> \o assembly.name \o <<"\n">>
    \o assembly.name \o <<":", "\n">>
    \o instructions_to_str(assembly.instructions)
    \o Trailer

(* ---------------------------------------------------------------------- *)
(* Inputs                                                                  *)
(* ---------------------------------------------------------------------- *)
Alphabet == {"i", "n", "t", "1", "/", "*", "\n", " ", "@", "U+00E9"}

ShortTexts == UNION {[1..n -> Alphabet] : n \in 0..MaxSrcLen}

KwVoid == <<"v", "o", "i", "d">>

NameMain == <<"m", "a", "i", "n">>

Names ==
  {NameMain, <<"f">>, <<"_", "x", "1">>, <<"Z", "9">>, <<"i">>,
   <<"r", "e", "t">>, <<"i", "n", "t", "e", "g", "e", "r">>,
   <<"r", "e", "t", "u", "r", "n", "s">>}

Seps == {<<" ">>, <<"\n">>}

Gaps == {<<>>, <<" ">>, <<"\n", " ">>}

ParamTexts == {<<>>, KwVoid}

MaxI32Text == <<"2", "1", "4", "7", "4", "8", "3", "6", "4", "7">>

OverI32Text == <<"2", "1", "4", "7", "4", "8", "3", "6", "4", "8">>

NumTexts == {<<"0">>, <<"4", "2">>, <<"0", "0", "7">>, MaxI32Text, OverI32Text}

ProgramText(sep, gap, id, params, num) ==
  KwInt \o sep \o id \o gap \o <<"(">> \o params \o <<")">> \o gap
    \o <<"{">> \o gap \o KwReturn \o sep \o num \o gap \o <<";">> \o gap
    \o <<"}">>

ProgramTexts ==
  {ProgramText(sep, gap, id, params, num) :
     sep \in Seps, gap \in Gaps, id \in Names, params \in ParamTexts,
     num \in NumTexts}

CommentPieces ==
  {<<>>, <<"x">>, <<"1">>, <<"i", "n">>, <<"t">>, <<" ">>, <<"\n">>, <<";">>,
   <<"@">>, <<"/">>, <<"*">>}

Comments ==
  {<<"/", "/">>, <<"/", "/", "@">>, <<"/", "/", " ", "x", "\t">>,
   <<"/", "/", "/", "*">>,
   <<"/", "*", "*", "/">>, <<"/", "*", "@", "*", "/">>,
   <<"/", "*", "/", "*", "/">>, <<"/", "*", "*", "*", "/">>,
   <<"/", "*", "\n", "x", "*", "/">>, <<"/", "*", "/", "/", "*", "/">>,
   <<"/", "*", "*", "x", "*", "/">>, <<"/", "*", "x">>, <<"/", "*", "/">>}

CommentTexts ==
  {pre \o c \o post : pre \in CommentPieces, c \in Comments,
                      post \in CommentPieces}

(* the text of test_unexpected_character (lex.rs:240-247) *)
UnexpectedCharacterText ==
  <<"i", "n", "t", " ", "m", "a", "i", "n", "(", ")", " ", "{", " ", "r",
    "e", "t", "u", "r", "n", " ", "4", "2", " ", "@", ";", " ", "}">>

OtherTexts ==
  {UnexpectedCharacterText,
   <<"i", "n", "t", "\t", "f">>, <<"{", "}", "-", "~", "!", "\r", "r", "_">>,
   <<"r", "e", "t", "u", "r", "n", "5">>, <<"i", "n", "t", "X">>,
   <<"U+00B2", "x">>, <<"x", "U+00E9", "1">>}

Sources == ShortTexts \cup ProgramTexts \cup CommentTexts \cup OtherTexts

(* token sequences handed to parse (a pub fn, called on vectors the lexer
   did not build by the tests of parse.rs) *)
DigitStrings == UNION {[1..n -> {"0", "1", "9"}] : n \in 1..MaxDigits}

LiteralTexts ==
  DigitStrings \cup
  {<<"4", "2">>, MaxI32Text, OverI32Text, <<"0", "0", "0">> \o MaxI32Text,
   <<"0", "0", "0">> \o OverI32Text,
   <<"2", "1", "4", "7", "4", "8", "3", "6", "5", "0">>,
   <<"4", "2", "9", "4", "9", "6", "7", "3", "3", "8">>,
   <<"9", "9", "9", "9", "9", "9", "9", "9", "9", "9", "9">>,
   <<>>, <<"-", "5">>, <<"+", "7">>, <<"4", "x">>, <<"-">>}

ParamTokens == {<<>>, <<Tok("VoidKeyword")>>, <<Identifier(KwVoid)>>}

FunctionTokens(n, params, d) ==
  <<Tok("IntKeyword"), Identifier(n), Tok("OpenParenthesis")>> \o params
    \o <<Tok("CloseParenthesis"), Tok("OpenBrace"), Tok("ReturnKeyword"),
         IntegerLiteral(d), Tok("Semicolon"), Tok("CloseBrace")>>

ExtraTokens == {Tok("Semicolon"), Tok("CloseBrace"), Tok("IntKeyword")}

ExtraSeqs == UNION {[1..n -> ExtraTokens] : n \in 0..MaxExtra}

TokenNames == {NameMain, <<"f">>}

WholeTokenSeqs ==
  {FunctionTokens(n, params, d) \o e :
     n \in TokenNames, params \in ParamTokens, d \in LiteralTexts,
     e \in ExtraSeqs}

PrefixTokenSeqs ==
  {SubSeq(FunctionTokens(n, params, <<"4", "2">>), 1, k) :
     n \in TokenNames, params \in ParamTokens, k \in 0..9}

WrongTokens == {Tok("ReturnKeyword"), Tok("Decrement"), Tok("Negation")}

MistakenTokenSeqs ==
  {[FunctionTokens(NameMain, params, <<"4", "2">>) EXCEPT ![k] = w] :
     params \in ParamTokens, k \in 1..9, w \in WrongTokens}

TokenSeqs == WholeTokenSeqs \cup PrefixTokenSeqs \cup MistakenTokenSeqs

ProgramValues == {0, 7, 42, 100, MaxI32, -1, -42, MinI32}

Programs ==
  {Program(n, Return(Const(v))) : n \in Names, v \in ProgramValues}

(* ---------------------------------------------------------------------- *)
(* The pipeline of main (main.rs:23-31) as a state machine                 *)
(* ---------------------------------------------------------------------- *)
NotReturned == [some |-> FALSE, v |-> <<>>]

Returned(toks) == [some |-> TRUE, v |-> toks]

Init ==
  /\ src \in Sources
  /\ lx = LexInit
  /\ tokens = NotReturned
  /\ ps = ParseInit
  /\ asm = NoAsm
  /\ text = <<>>
  /\ stage = "lex"

(* the while loop of lex is at a character that selects the arm a *)
LexAt(a) ==
  /\ stage = "lex"
  /\ lx.status = "run"
  /\ ArmOf(src, lx) = a

(* the arm leaves the lexer in st; a panic aborts the process *)
LexTo(st) ==
  /\ lx' = st
  /\ stage' = IF st.status = "panic" THEN "aborted" ELSE "lex"
  /\ UNCHANGED <<src, tokens, ps, asm, text>>

LexSingleChar ==
  /\ LexAt("single")
  /\ LexTo(ArmSingleChar(src, lx))

LexSlash ==
  /\ LexAt("slash")
  /\ LexTo(ArmSlash(src, lx))

LexI ==
  /\ LexAt("i")
  /\ LexTo(ArmI(src, lx))

LexR ==
  /\ LexAt("r")
  /\ LexTo(ArmR(src, lx))

LexDigit ==
  /\ LexAt("digit")
  /\ LexTo(lex_integer_literal(src, lx))

LexAlnum ==
  /\ LexAt("alnum")
  /\ LexTo(lex_identifier_or_keyword(src, lx))

LexWhitespace ==
  /\ LexAt("whitespace")
  /\ LexTo(ArmWhitespace(src, lx))

LexUnexpected ==
  /\ LexAt("unexpected")
  /\ LexTo(ArmUnexpected(src, lx))

(* the loop ends, lex returns its tokens to main *)
LexReturn ==
  /\ LexAt("return")
  /\ lx' = ArmReturn(src, lx)
  /\ tokens' = Returned(lx.tokens)
  /\ stage' = "parse"
  /\ UNCHANGED <<src, ps, asm, text>>

(* parse is about to run its statement s *)
ParseAt(s) ==
  /\ stage = "parse"
  /\ ps.step = s

(* the statement leaves the parser in st; main goes on with the result *)
ParseTo(st) ==
  /\ ps' = st
  /\ stage' = IF st.result.tag = "ok" THEN "generate"
              ELSE IF st.result.tag = "err" THEN "parse_error"
              ELSE "parse"
  /\ UNCHANGED <<src, lx, tokens, asm, text>>

ExpectIntKeyword ==
  /\ ParseAt("int")
  /\ ParseTo(expect_token(tokens.v, ps, Tok("IntKeyword"), "name"))

ExpectName ==
  /\ ParseAt("name")
  /\ ParseTo(expect_identifier(tokens.v, ps, "open"))

ExpectOpenParenthesis ==
  /\ ParseAt("open")
  /\ ParseTo(expect_token(tokens.v, ps, Tok("OpenParenthesis"), "params"))

ExpectParams ==
  /\ ParseAt("params")
  /\ ParseTo(ParseParams(tokens.v, ps))

ExpectCloseParenthesis ==
  /\ ParseAt("close")
  /\ ParseTo(expect_token(tokens.v, ps, Tok("CloseParenthesis"), "brace"))

ExpectOpenBrace ==
  /\ ParseAt("brace")
  /\ ParseTo(expect_token(tokens.v, ps, Tok("OpenBrace"), "return"))

ExpectReturnKeyword ==
  /\ ParseAt("return")
  /\ ParseTo(expect_token(tokens.v, ps, Tok("ReturnKeyword"), "literal"))

ExpectLiteral ==
  /\ ParseAt("literal")
  /\ ParseTo(expect_integer_literal(tokens.v, ps, "semi"))

ExpectSemicolon ==
  /\ ParseAt("semi")
  /\ ParseTo(expect_token(tokens.v, ps, Tok("Semicolon"), "cbrace"))

ExpectCloseBrace ==
  /\ ParseAt("cbrace")
  /\ ParseTo(expect_token(tokens.v, ps, Tok("CloseBrace"), "end"))

ExpectEnd ==
  /\ ParseAt("end")
  /\ ParseTo(ParseEnd(tokens.v, ps))

Generate ==
  /\ stage = "generate"
  /\ asm' = generate_assembly(ps.result.program)
  /\ stage' = IF asm'.tag = "ok" THEN "render" ELSE "asm_error"
  /\ UNCHANGED <<src, lx, tokens, ps, text>>

Render ==
  /\ stage = "render"
  /\ text' = assembly_to_string(asm.program)
  /\ stage' = "done"
  /\ UNCHANGED <<src, lx, tokens, ps, asm>>

LexNext ==
  \/ LexSingleChar
  \/ LexSlash
  \/ LexI
  \/ LexR
  \/ LexDigit
  \/ LexAlnum
  \/ LexWhitespace
  \/ LexUnexpected
  \/ LexReturn

ParseNext ==
  \/ ExpectIntKeyword
  \/ ExpectName
  \/ ExpectOpenParenthesis
  \/ ExpectParams
  \/ ExpectCloseParenthesis
  \/ ExpectOpenBrace
  \/ ExpectReturnKeyword
  \/ ExpectLiteral
  \/ ExpectSemicolon
  \/ ExpectCloseBrace
  \/ ExpectEnd

AsmNext ==
  \/ Generate
  \/ Render

Next ==
  \/ LexNext
  \/ ParseNext
  \/ AsmNext

Spec == Init /\ [][Next]_vars

(* parse called on a token vector of the caller's making *)
InitParse ==
  /\ src = <<>>
  /\ lx = [LexInit EXCEPT !.status = "done"]
  /\ \E toks \in TokenSeqs : tokens = Returned(toks)
  /\ ps = ParseInit
  /\ asm = NoAsm
  /\ text = <<>>
  /\ stage = "parse"

NextParse ==
  \/ ParseNext
  \/ AsmNext

SpecParse == InitParse /\ [][NextParse]_vars

(* generate_assembly and assembly_to_string called on a Program *)
InitAsm ==
  /\ src = <<>>
  /\ lx = [LexInit EXCEPT !.status = "done"]
  /\ tokens = Returned(<<>>)
  /\ \E p \in Programs :
       ps = [ParseInit EXCEPT !.step = "returned", !.result = Ok(p)]
  /\ asm = NoAsm
  /\ text = <<>>
  /\ stage = "generate"

SpecAsm == InitAsm /\ [][AsmNext]_vars

(* ---------------------------------------------------------------------- *)
(* Vocabulary of the properties, defined without the lexer or the parser   *)
(* ---------------------------------------------------------------------- *)
IsDigits(d) == Len(d) > 0 /\ \A k \in 1..Len(d) : d[k] \in AsciiDigits

RECURSIVE StripZeros(_)
StripZeros(d) ==
  IF Len(d) > 1 /\ d[1] = "0" THEN StripZeros(Tail(d)) ELSE d

(* d <= e for two digit strings of the same length *)
DigitsLeq(d, e) ==
  \/ d = e
  \/ \E k \in 1..Len(d) :
       /\ DigitValue(d[k]) < DigitValue(e[k])
       /\ \A j \in 1..(k - 1) : d[j] = e[j]

(* the decimal value of the digit string d is at most 2147483647 *)
DecimalFits(d) ==
  LET z == StripZeros(d)
  IN \/ Len(z) < Len(MaxI32Text)
     \/ Len(z) = Len(MaxI32Text) /\ DigitsLeq(z, MaxI32Text)

RECURSIVE DecimalValue(_)
DecimalValue(d) ==
  IF Len(d) = 0 THEN 0
  ELSE 10 * DecimalValue(SubSeq(d, 1, Len(d) - 1)) + DigitValue(d[Len(d)])

(* the negated value of a digit string, -2147483648 included *)
RECURSIVE NegatedValue(_)
NegatedValue(d) ==
  IF Len(d) = 0 THEN 0
  ELSE 10 * NegatedValue(SubSeq(d, 1, Len(d) - 1)) - DigitValue(d[Len(d)])

ParseReturned == ps.step = "returned"

ExpectedProgram(n, d) == Ok(Program(n, Return(Const(DecimalValue(d)))))

TrailingTokensError ==
  Err(Fmt("Unexpected tokens at after function delcaration", <<>>))

(* ---------------------------------------------------------------------- *)
(* C1                                                                      *)
(* ---------------------------------------------------------------------- *)
(* C1: for every source text `int <id>(void){ return <N>; }` or
   `int <id>(){ return <N>; }`, with <N> a decimal literal that fits a
   signed 32-bit integer, parse(lex(src)) returns Ok(Program) with the name
   <id> and the body Return(Const(N)). *)
C1_ParseOfLexYieldsProgram ==
  stage \notin {"lex", "parse"} =>
    \A sep \in Seps, gap \in Gaps, id \in Names, params \in ParamTexts,
       num \in NumTexts :
      (src = ProgramText(sep, gap, id, params, num) /\ DecimalFits(num))
      => /\ lx.status = "done"
         /\ ps.result = ExpectedProgram(id, num)

(* ---------------------------------------------------------------------- *)
(* C2                                                                      *)
(* ---------------------------------------------------------------------- *)
(* C2: on [IntKeyword, Identifier(n), OpenParenthesis, Identifier("void"),
   CloseParenthesis, OpenBrace, ReturnKeyword, IntegerLiteral(d), Semicolon,
   CloseBrace] with d a valid 32-bit literal, parse consumes the
   Identifier("void") token and returns Ok(Program{n, Return(Const(d))}). *)
C2_VoidIdentifierAccepted ==
  \A n \in TokenNames, d \in LiteralTexts :
    (/\ tokens = Returned(FunctionTokens(n, <<Identifier(KwVoid)>>, d))
     /\ IsDigits(d)
     /\ DecimalFits(d)
     /\ ParseReturned)
    => ps.result = ExpectedProgram(n, d)

(* ---------------------------------------------------------------------- *)
(* C3                                                                      *)
(* ---------------------------------------------------------------------- *)
(* C3: on [IntKeyword, Identifier(n), OpenParenthesis, CloseParenthesis,
   OpenBrace, ReturnKeyword, IntegerLiteral(d), Semicolon, CloseBrace] with
   d a non-empty string of decimal digits, parse returns
   Ok(Program{n, Return(Const(v))}) with v the decimal value of d when that
   value is at most 2147483647 (leading zeros allowed), and
   Err("Invalid integer literal") when it is larger. *)
C3_LiteralValueOrInvalid ==
  \A n \in TokenNames, d \in LiteralTexts :
    (/\ tokens = Returned(FunctionTokens(n, <<>>, d))
     /\ IsDigits(d)
     /\ ParseReturned)
    => IF DecimalFits(d)
       THEN ps.result = ExpectedProgram(n, d)
       ELSE ps.result = Err(Fmt("Invalid integer literal", <<>>))

C3_Witness ==
  /\ tokens = Returned(FunctionTokens(NameMain, <<>>, OverI32Text))
  /\ ParseReturned
  /\ ps.result.tag = "err"

(* ---------------------------------------------------------------------- *)
(* C4                                                                      *)
(* ---------------------------------------------------------------------- *)
HasAcceptedProperPrefix(toks) ==
  \E k \in 0..(Len(toks) - 1) : parse(SubSeq(toks, 1, k)).tag = "ok"

(* C4: a token sequence made of an accepted sequence followed by one or
   more tokens makes parse return the unexpected-trailing-tokens error, and
   parse never returns Ok with tokens left after the CloseBrace. *)
C4_TrailingTokensRejected ==
  ParseReturned =>
    /\ HasAcceptedProperPrefix(tokens.v) => ps.result = TrailingTokensError
    /\ ps.result.tag = "ok" => ps.idx = Len(tokens.v) + 1

C4_Witness ==
  /\ tokens = Returned(FunctionTokens(NameMain, <<>>, <<"4", "2">>)
                         \o <<Tok("Semicolon")>>)
  /\ ParseReturned
  /\ ps.idx = 11

(* ---------------------------------------------------------------------- *)
(* C5 and C9: comments, as the text describes them                         *)
(* ---------------------------------------------------------------------- *)
(* the characters that may start a token or be skipped *)
LegalChar(c) ==
  \/ c \in {"{", "}", "(", ")", ";", "-", "~", "!", "/", "_", " ", "\n", "\r"}
  \/ is_alphanumeric(c)

(* the positions q >= p of s at which `*/` begins *)
CommentClosers(s, p) ==
  {q \in p..(Len(s) - 1) : s[q] = "*" /\ s[q + 1] = "/"}

(* the positions q >= p of s that hold a newline *)
Newlines(s, p) == {q \in p..Len(s) : s[q] = "\n"}

Least(S) == CHOOSE q \in S : \A r \in S : q <= r

(* s from position p on, each `// ...` comment up to its newline and each
   `/* ... */` comment up to its first `*/` replaced by one space; an
   unterminated `/*` is no comment and ends the replacement *)
RECURSIVE ReplaceCommentsFrom(_, _)
ReplaceCommentsFrom(s, p) ==
  IF p > Len(s) THEN <<>>
  ELSE IF p < Len(s) /\ s[p] = "/" /\ s[p + 1] = "/"
  THEN <<" ">> \o (IF Newlines(s, p + 2) = {} THEN <<>>
                   ELSE ReplaceCommentsFrom(s, Least(Newlines(s, p + 2))))
  ELSE IF p < Len(s) /\ s[p] = "/" /\ s[p + 1] = "*"
  THEN IF CommentClosers(s, p + 2) = {} THEN SubSeq(s, p, Len(s))
       ELSE <<" ">> \o ReplaceCommentsFrom(s, Least(CommentClosers(s, p + 2)) + 2)
  ELSE <<s[p]>> \o ReplaceCommentsFrom(s, p + 1)

ReplaceComments(s) == ReplaceCommentsFrom(s, 1)

(* the positions of s that hold `/` or a character no rule matches *)
Stoppers(s) == {q \in 1..Len(s) : s[q] = "/" \/ ~LegalChar(s[q])}

(* outside the comments the scanner meets an illegal character before any
   `/` that opens no comment *)
MeetsIllegalCharacter(s) ==
  LET r == ReplaceComments(s)
  IN Stoppers(r) # {} /\ r[Least(Stoppers(r))] # "/"

IllegalCharacterMet(s) ==
  LET r == ReplaceComments(s) IN r[Least(Stoppers(r))]

(* C5: when the scanner, outside a comment, reaches a character that is
   none of { } ( ) ; - ~ ! /, alphanumeric, underscore, space, \n, \r, lex
   aborts reporting that character (the first such one), returns no token
   sequence, and what follows the character does not matter; in particular
   `int main() { return 42 @; }` fails on '@'. *)
C5_UnexpectedCharacterIsFatal ==
  /\ lx.status = "panic" =>
       /\ tokens = NotReturned
       /\ stage = "aborted"
       /\ ps = ParseInit
  /\ (lx.status # "run" /\ MeetsIllegalCharacter(src)) =>
       /\ lx.status = "panic"
       /\ lx.panic = <<"Unexpected character: ", IllegalCharacterMet(src)>>
  /\ (lx.status # "run" /\ src = UnexpectedCharacterText) =>
       lx.panic = <<"Unexpected character: ", "@">>

C5_Witness ==
  /\ src = UnexpectedCharacterText
  /\ lx.status = "panic"
  /\ Len(lx.tokens) = 7

(* ---------------------------------------------------------------------- *)
(* C6                                                                      *)
(* ---------------------------------------------------------------------- *)
AcceptedTokenSeqs == {a \in TokenSeqs : parse(a).tag = "ok"}

IsProperPrefixOfAccepted(toks) ==
  \E a \in AcceptedTokenSeqs :
    Len(toks) < Len(a) /\ SubSeq(a, 1, Len(toks)) = toks

EndOfInputMessages ==
  {"Expected {:?}, but found end of input",
   "Expected identifier, but found end of input",
   "Expected integer literal, but found end of input"}

LexOfEmptyIsEmpty == lex(<<>>).status = "done" /\ lex(<<>>).tokens = <<>>

(* C6 as stated: empty input lexes to the empty token sequence, and on every
   proper prefix of an accepted token sequence parse returns Err with a
   message saying that end of input was found instead of the expected
   token. *)
C6_PrefixFailsWithEndOfInput ==
  /\ LexOfEmptyIsEmpty
  /\ (ParseReturned /\ IsProperPrefixOfAccepted(tokens.v)) =>
       /\ ps.result.tag = "err"
       /\ ps.result.err.msg \in EndOfInputMessages

(* C6 amended: as above, except that on the prefix that ends right after
   OpenParenthesis the message is "Expected 'void' or ')' after '(", which
   does not mention the end of input. *)
C6_PrefixFailsAmended ==
  /\ LexOfEmptyIsEmpty
  /\ (ParseReturned /\ IsProperPrefixOfAccepted(tokens.v)) =>
       /\ ps.result.tag = "err"
       /\ IF Len(tokens.v) = 3
          THEN ps.result.err = Fmt("Expected 'void' or ')' after '(", <<>>)
          ELSE ps.result.err.msg \in EndOfInputMessages

C6_Witness ==
  /\ tokens = Returned(<<Tok("IntKeyword"), Identifier(NameMain),
                         Tok("OpenParenthesis")>>)
  /\ ParseReturned
  /\ ps.result.tag = "err"

(* ---------------------------------------------------------------------- *)
(* C7                                                                      *)
(* ---------------------------------------------------------------------- *)
(* the lines of a text: the pieces between its newlines *)
RECURSIVE Lines(_)
Lines(t) ==
  IF Newlines(t, 1) = {} THEN <<t>>
  ELSE LET q == Least(Newlines(t, 1))
       IN <<SubSeq(t, 1, q - 1)>> \o Lines(SubSeq(t, q + 1, Len(t)))

RECURSIVE StripIndent(_)
StripIndent(t) ==
  IF Len(t) > 0 /\ t[1] = " " THEN StripIndent(Tail(t)) ELSE t

(* d is the decimal spelling of v: digits without a needless leading zero,
   after a `-` when v is negative *)
IsDecimalOf(d, v) ==
  LET m == IF Len(d) > 0 /\ d[1] = "-" THEN Tail(d) ELSE d
  IN /\ IsDigits(m)
     /\ StripZeros(m) = m
     /\ IF Len(d) > 0 /\ d[1] = "-"
        THEN v < 0 /\ NegatedValue(m) = v
        ELSE v >= 0 /\ DecimalValue(m) = v

MovPrefix == <<" ", " ", " ", " ", "m", "o", "v", "l", " ", "$">>

MovSuffix == <<",", " ", "%", "e", "a", "x">>

IsMovLine(l, v) ==
  /\ Len(l) > Len(MovPrefix) + Len(MovSuffix)
  /\ SubSeq(l, 1, Len(MovPrefix)) = MovPrefix
  /\ SubSeq(l, Len(l) - Len(MovSuffix) + 1, Len(l)) = MovSuffix
  /\ IsDecimalOf(SubSeq(l, Len(MovPrefix) + 1, Len(l) - Len(MovSuffix)), v)

(* C7: for every Program{name, Return(Const(N))} the rendered assembly is
   made of exactly these lines in this order: the directive `.globl <name>`,
   the label `<name>:`, `    movl $N, %eax` with N in decimal, `    ret`,
   and the `.section .note.GNU-stack` trailer, with no newline after the
   trailer (the directive and the trailer are indented). *)
C7_RenderedLines ==
  stage = "done" =>
    LET p == ps.result.program
        l == Lines(text)
    IN /\ Len(l) = 5
       /\ StripIndent(l[1]) = <<".", "g", "l", "o", "b", "l", " ">> \o p.name
       /\ l[2] = p.name \o <<":">>
       /\ IsMovLine(l[3], p.body.exp.value)
       /\ l[4] = <<" ", " ", " ", " ", "r", "e", "t">>
       /\ StripIndent(l[5]) = StripIndent(Trailer)
       /\ text[Len(text)] # "\n"

C7_Witness ==
  /\ stage = "done"
  /\ ps.result.program = Program(NameMain, Return(Const(MinI32)))
  /\ Len(text) > 0

(* ---------------------------------------------------------------------- *)
(* C8                                                                      *)
(* ---------------------------------------------------------------------- *)
(* C8: generate_assembly(p) returns Ok(AsmProgram) with the name of p
   unchanged and the instruction list exactly [Mov(Imm(v), Register), Ret],
   v being the constant p returns; it never returns Err. *)
C8_TwoInstructions ==
  stage \in {"render", "done", "asm_error"} =>
    /\ asm.tag = "ok"
    /\ asm.program.name = ps.result.program.name
    /\ asm.program.instructions =
         <<Mov(Imm(ps.result.program.body.exp.value), Register), Ret>>

C8_Witness ==
  /\ stage = "render"
  /\ ps.result.program = Program(<<"Z", "9">>, Return(Const(-42)))
  /\ Len(asm.program.instructions) = 2

(* ---------------------------------------------------------------------- *)
(* C9                                                                      *)
(* ---------------------------------------------------------------------- *)
(* outside the comments the first `/` or illegal character is a `/` with
   another character behind it *)
MeetsLoneSlash(s) ==
  LET r == ReplaceComments(s)
  IN /\ Stoppers(r) # {}
     /\ r[Least(Stoppers(r))] = "/"
     /\ Least(Stoppers(r)) < Len(r)
     /\ r[Least(Stoppers(r)) + 1] \notin {"/", "*"}

(* C9: replacing every `// ...` comment (up to its newline) and every
   `/* ... */` comment (through its first `*/`) by one space leaves the
   outcome of lex unchanged; a text whose characters outside comments are
   all legal lexes without error whatever its comments hold; and a `/`
   followed by a character other than `/` or `*` is fatal. *)
C9_CommentsAreSeparators ==
  lx.status # "run" =>
    LET r == lex(ReplaceComments(src))
    IN /\ r.status = lx.status
       /\ r.panic = lx.panic
       /\ lx.status = "done" => r.tokens = lx.tokens
       /\ Stoppers(ReplaceComments(src)) = {} => lx.status = "done"
       /\ MeetsLoneSlash(src) =>
            /\ lx.status = "panic"
            /\ lx.panic[1] = "Unexpected character after '/': "
            /\ tokens = NotReturned

C9_Witness ==
  /\ src = <<"i", "n">> \o <<"/", "*", "@", "*", "/">> \o <<"t">>
  /\ lx.status = "done"
  /\ lx.tokens = <<Identifier(<<"i", "n">>), Identifier(<<"t">>)>>

(* ---------------------------------------------------------------------- *)
(* C10                                                                     *)
(* ---------------------------------------------------------------------- *)
IsIdentifierText(t) ==
  /\ Len(t) > 0
  /\ t[1] \in AsciiLetters \cup {"_"}
  /\ \A k \in 1..Len(t) : t[k] \in AsciiLetters \cup AsciiDigits \cup {"_"}

(* t is a piece of s *)
OccursIn(t, s) ==
  \E p \in 1..(Len(s) - Len(t) + 1) : SubSeq(s, p, p + Len(t) - 1) = t

(* C10: in every token sequence of lex each Identifier holds a non-empty
   text matching [A-Za-z_][A-Za-z0-9_]* taken from the source as it is, and
   each IntegerLiteral a non-empty text of decimal digits. *)
C10_TokenTexts ==
  \A k \in 1..Len(lx.tokens) :
    LET t == lx.tokens[k]
    IN /\ t.kind = "Identifier" =>
            IsIdentifierText(t.text) /\ OccursIn(t.text, src)
       /\ t.kind = "IntegerLiteral" =>
            IsDigits(t.text) /\ OccursIn(t.text, src)

(* ---------------------------------------------------------------------- *)
(* C11                                                                     *)
(* ---------------------------------------------------------------------- *)
(* the text s holds kw from position p on *)
HasPrefixAt(s, p, kw) ==
  /\ p + Len(kw) - 1 <= Len(s)
  /\ SubSeq(s, p, p + Len(kw) - 1) = kw

IsWordChar(c) == is_alphanumeric(c) \/ c = "_"

(* the position behind the maximal alphanumeric/underscore run from p *)
RunEnd(s, p) ==
  Least({q \in p..(Len(s) + 1) : q = Len(s) + 1 \/ ~IsWordChar(s[q])})

TextIntX == <<"i", "n", "t", "X">>

TextReturn5 == <<"r", "e", "t", "u", "r", "n", "5">>

AtTokenStart == stage = "lex" /\ lx.status = "run" /\ lx.pos <= Len(src)

KeywordStep ==
  AtTokenStart =>
    /\ HasPrefixAt(src, lx.pos, KwInt) =>
         /\ lx'.tokens = Append(lx.tokens, Tok("IntKeyword"))
         /\ lx'.pos = lx.pos + 3
         /\ lx'.status = "run"
    /\ HasPrefixAt(src, lx.pos, KwReturn) =>
         /\ lx'.tokens = Append(lx.tokens, Tok("ReturnKeyword"))
         /\ lx'.pos = lx.pos + 6
         /\ lx'.status = "run"
    /\ (/\ src[lx.pos] \in {"i", "r"}
        /\ ~HasPrefixAt(src, lx.pos, KwInt)
        /\ ~HasPrefixAt(src, lx.pos, KwReturn)) =>
         /\ lx'.tokens =
              Append(lx.tokens,
                     Identifier(SubSeq(src, lx.pos, RunEnd(src, lx.pos) - 1)))
         /\ lx'.pos = RunEnd(src, lx.pos)
         /\ lx'.status = "run"

KeywordExamples ==
  /\ (src = TextIntX /\ lx'.status = "done") =>
       lx'.tokens = <<Tok("IntKeyword"), Identifier(<<"X">>)>>
  /\ (src = TextReturn5 /\ lx'.status = "done") =>
       lx'.tokens = <<Tok("ReturnKeyword"), IntegerLiteral(<<"5">>)>>
  /\ (src = <<"i", "n">> /\ lx'.status = "done") =>
       lx'.tokens = <<Identifier(<<"i", "n">>)>>

(* C11: at a token start where the remaining input begins with `int`
   (`return`), lex emits IntKeyword (ReturnKeyword), advances exactly 3 (6)
   characters and lexes what follows separately, whatever follows; a run
   beginning with `i` or `r` but not with the keyword becomes one Identifier
   holding the whole maximal alphanumeric/underscore run. *)
C11_KeywordPrefixTest == [][KeywordStep /\ KeywordExamples]_vars

C11_Witness ==
  /\ src = TextIntX
  /\ lx.status = "done"
  /\ lx.tokens = <<Tok("IntKeyword"), Identifier(<<"X">>)>>

(* ---------------------------------------------------------------------- *)
(* C12                                                                     *)
(* ---------------------------------------------------------------------- *)
BeginsWithKeyword(t) == HasPrefixAt(t, 1, KwInt) \/ HasPrefixAt(t, 1, KwReturn)

KeywordNames == {n \in Names : BeginsWithKeyword(n)}

(* toks holds the token t *)
HoldsToken(toks, t) == \E k \in 1..Len(toks) : toks[k] = t

(* C12: no token sequence of lex holds an Identifier whose text begins with
   `int` or `return`, nor a VoidKeyword or a Decrement token; so a function
   name that begins with `int` or `return` never reaches parse as one
   Identifier token. *)
C12_NoKeywordPrefixedIdentifier ==
  /\ \A k \in 1..Len(lx.tokens) :
       /\ lx.tokens[k].kind = "Identifier" =>
            ~BeginsWithKeyword(lx.tokens[k].text)
       /\ lx.tokens[k].kind \notin {"VoidKeyword", "Decrement"}
  /\ tokens.some =>
       /\ tokens.v = lx.tokens
       /\ \A sep \in Seps, gap \in Gaps, id \in KeywordNames,
             params \in ParamTexts, num \in NumTexts :
            src = ProgramText(sep, gap, id, params, num) =>
              ~HoldsToken(tokens.v, Identifier(id))

C12_Witness ==
  /\ src = ProgramText(<<" ">>, <<>>, <<"r", "e", "t", "u", "r", "n", "s">>,
                       <<>>, <<"0">>)
  /\ tokens.some
  /\ HoldsToken(tokens.v, Identifier(<<"s">>))

(* ---------------------------------------------------------------------- *)
(* C13                                                                     *)
(* ---------------------------------------------------------------------- *)
(* s ends with a `/` that closes no `//` and no `*/` *)
EndsWithLoneSlash(s) ==
  /\ Len(s) > 0
  /\ s[Len(s)] = "/"
  /\ Len(s) > 1 => s[Len(s) - 1] \notin {"/", "*"}

(* the positions of s at which a `/*` with no later `*/` begins *)
UnterminatedOpeners(s) ==
  {p \in 1..(Len(s) - 1) :
     s[p] = "/" /\ s[p + 1] = "*" /\ CommentClosers(s, p + 2) = {}}

(* the `/` the end of input is met behind: the first unterminated `/*`, or
   else the lone `/` that ends the text *)
OpenSlash(s) ==
  IF UnterminatedOpeners(s) # {} THEN Least(UnterminatedOpeners(s)) ELSE Len(s)

(* C13 as stated: every source text that ends with a lone `/` or holds a
   `/*` with no later `*/` lexes normally, to exactly the tokens lexed
   before that `/`. *)
C13_OpenSlashTextsLexNormally ==
  (/\ lx.status # "run"
   /\ EndsWithLoneSlash(src) \/ UnterminatedOpeners(src) # {}) =>
    /\ lx.status = "done"
    /\ lx.tokens = lex(SubSeq(src, 1, OpenSlash(src) - 1)).tokens

(* outside the comments the first `/` or illegal character of s is a `/`
   that ends the text or opens a `/*` with no later `*/` *)
MeetsOpenSlash(s) ==
  LET r == ReplaceComments(s)
  IN /\ Stoppers(r) # {}
     /\ r[Least(Stoppers(r))] = "/"
     /\ \/ Least(Stoppers(r)) = Len(r)
        \/ r[Least(Stoppers(r)) + 1] = "*"

BeforeOpenSlash(s) ==
  LET r == ReplaceComments(s) IN SubSeq(r, 1, Least(Stoppers(r)) - 1)

(* C13 amended: when the scanner, having met no error, reaches outside a
   comment a `/` that ends the text or opens a `/*` with no later `*/`, lex
   returns normally, with exactly the tokens lexed before that `/`. *)
C13_OpenSlashReachedLexesNormally ==
  (lx.status # "run" /\ MeetsOpenSlash(src)) =>
    /\ lx.status = "done"
    /\ lx.tokens = lex(BeforeOpenSlash(src)).tokens
    /\ stage # "lex" => tokens = Returned(lx.tokens)

C13_Witness ==
  /\ src = <<"x", "/", "*", "x", "@">>
  /\ lx.status = "done"
  /\ lx.tokens = <<Identifier(<<"x">>)>>

====
